---- MODULE Spec2Model ----
(***************************************************************************)
(* A model of the parcel readout (models/brain_encoder.py) and of the     *)
(* training / evaluation loops (engine.py) of whole_brain_encoder.        *)
(*                                                                         *)
(* Tensors are functions: a vector over voxels is a function on Voxels, a *)
(* batch is a sequence of samples, a parcel is a sequence of voxel        *)
(* indices.  Real numbers are small integers; a loss value is a record    *)
(* that is either finite or one of nan / inf / -inf.                      *)
(***************************************************************************)
EXTENDS Integers, Sequences, FiniteSets, TLC

\* ------------------------------------------------------------------ bounds
NumVoxels == 3
MaxParcels == 2
MaxIndices == 3
MaxBatchSize == 1
MaxLoaderBatch == 2
MaxEvalBatches == 2
HiddenDim == 2
MaxBatches == 12
MaxWorkers == 3
MaxShardBatches == 2

\* ------------------------------------------------------ program constants
print_freq == 10

\* ------------------------------------------------------------- variables
VARIABLES
    parcels,        \* dataset.parcels: sequence of sequences of voxel indices
    valid,          \* dataset.mask: per parcel, which of its slots hold a voxel
    labels,         \* dataset.labels[:, 0]: the metaparcel label of every voxel
    built,          \* "none" | "ok" | "failed": outcome of brain_encoder.__init__
    parcel_mask,    \* self.parcel_mask, (num_hemi_voxels, num_parcels)
    embed,          \* self.embed: the weights and bias of the nn.Linear
    output_tokens,  \* hs[-1] of the last forward pass, (batch, num_parcels, hidden)
    pred,           \* out["pred"] of the last forward pass, (batch, num_hemi_voxels)
    forwards,       \* number of forward passes run on the model
    \* train_one_epoch
    pc,             \* the statement train_one_epoch is about to execute
    batch_idx,      \* enumerate index of the current batch, -1 before the first
    max_norm,       \* the max_norm argument
    loss,           \* loss_value of the current batch
    phases,         \* the steps executed so far for the current batch, in order
    calls,          \* how often each collaborator has been called in this epoch
    meters,         \* metric_logger.meters: name -> [count, total]
    running_loss,   \* running_loss
    running_corr,   \* running_corr
    printed,        \* what the fatal branch printed, <<>> if nothing
    wandb_log,      \* the last dictionary handed to wandb.log, <<>> if none
    result,         \* the return value of train_one_epoch, <<>> before it returns
    seen,           \* history: the sums of loss and correlation over all steps
    \* synchronize_between_processes
    shards,         \* metric_logger.meters of every worker when it reaches line 90
    pool,           \* the partial sums of the reduction that are not merged yet
    spc,            \* "idle" | "reduce" | "returned"
    sync_result,    \* what train_one_epoch returns after the reduction, <<>> before
    \* unwrap_fmri
    fmri_data,      \* the fmri_data argument, (batch, num_parcels, max_parcel_size)
    metaparcel_idx, \* the metaparcel_idx argument
    dense,          \* the dense voxel vectors fmri_data was packed from
    unwrapped,      \* the finished call: recon, the writes made, the return value
    \* evaluate
    loader,         \* data_loader: the batch sizes it yields, in order
    epc,            \* "loop" | "returned" | "raised"
    cursor,         \* number of batches evaluate has taken from the loader
    ys,             \* ys: one reconstructed target tensor per batch
    preds,          \* preds: one reconstructed prediction tensor per batch
    eval_meter,     \* metric_logger.meters["loss_labels"] of evaluate
    eval_printed,   \* the averaged stats evaluate printed, <<>> before
    eval_result     \* the return value of evaluate, <<>> before it returns

dataVars == <<parcels, valid, labels>>

modelVars == <<built, parcel_mask, embed, output_tokens, pred, forwards>>

unwrapVars == <<fmri_data, metaparcel_idx, dense, unwrapped>>

evalVars == <<loader, epc, cursor, ys, preds, eval_meter, eval_printed, eval_result>>

trainVars == <<pc, batch_idx, max_norm, loss, phases, calls, meters,
               running_loss, running_corr, printed, wandb_log, result, seen>>

syncVars == <<shards, pool, spc, sync_result>>

vars == <<dataVars, modelVars, trainVars, unwrapVars, evalVars, syncVars>>

\* ------------------------------------------------------------ sequences
Range(s) == {s[i] : i \in DOMAIN s}

SeqsUpTo(S, n) == UNION {[1..k -> S] : k \in 0..n}

RECURSIVE SumSeq(_)
SumSeq(s) == IF s = <<>> THEN 0 ELSE Head(s) + SumSeq(Tail(s))

\* all ways to cut s into at most k non-empty consecutive pieces
RECURSIVE Splits(_, _)
Splits(s, k) ==
    IF s = <<>> THEN {<<>>}
    ELSE IF k = 0 THEN {}
    ELSE UNION {{<<SubSeq(s, 1, n)>> \o rest :
                    rest \in Splits(SubSeq(s, n + 1, Len(s)), k - 1)} :
                n \in 1..Len(s)}

\* ---------------------------------------------------------- the dataset
Voxels == 0..(NumVoxels - 1)

\* in-range indices plus one index below and one above the voxel space
IndexValues == (-1)..NumVoxels

\* parcel lists over the index set S: at least one parcel, no empty parcel
ParcelLists(S) ==
    UNION {Splits(f, MaxParcels) : f \in SeqsUpTo(S, MaxIndices) \ {<<>>}}

InRange(ps) == \A p \in DOMAIN ps : \A k \in DOMAIN ps[p] : ps[p][k] \in Voxels

\* index sets: no index twice in one parcel, no index in two parcels
UniqueWithin(ps) ==
    \A p \in DOMAIN ps : \A j, k \in DOMAIN ps[p] : j # k => ps[p][j] # ps[p][k]

PairwiseDisjoint(ps) ==
    \A p, q \in DOMAIN ps : p # q => Range(ps[p]) \cap Range(ps[q]) = {}

Owners(ps, v) == {p \in DOMAIN ps : v \in Range(ps[p])}

\* dataset.max_parcel_size: the slot width, the size of the largest parcel
RECURSIVE MaxLen(_)
MaxLen(ps) ==
    IF ps = <<>> THEN 0
    ELSE LET m == MaxLen(Tail(ps))
         IN  IF Len(Head(ps)) > m THEN Len(Head(ps)) ELSE m

CountTrue(m) == Cardinality({k \in DOMAIN m : m[k]})

\* dataset.mask: row p marks as many slots as parcel p has voxels
ValidMasks(ps) ==
    {vm \in [DOMAIN ps -> [1..MaxLen(ps) -> BOOLEAN]] :
        \A p \in DOMAIN ps : CountTrue(vm[p]) = Len(ps[p])}

\* the usual layout: the voxels first, the padding behind them
PrefixMask(ps) == [p \in DOMAIN ps |-> [k \in 1..MaxLen(ps) |-> k <= Len(ps[p])]]

LabelValues == {0, 1}

\* ------------------------------------------- brain_encoder.__init__
Zeros(n) == [v \in 0..(n - 1) |-> 0]

\* torch.Tensor.scatter_(0, index, value) on a 1-d tensor: every index must
\* satisfy 0 <= index < size, otherwise the call raises
ScatterWrapping(t, index, value) ==
    LET n == Cardinality(DOMAIN t.val)
        at(i) == IF i < 0 THEN i + n ELSE i
    IN  IF \E k \in DOMAIN index : at(index[k]) \notin DOMAIN t.val
        THEN [ok |-> FALSE, val |-> <<>>]
        ELSE [ok |-> TRUE,
              val |-> [v \in DOMAIN t.val |->
                         IF \E k \in DOMAIN index : at(index[k]) = v
                         THEN value ELSE t.val[v]]]

Scatter(t, index, value) ==
    IF \E k \in DOMAIN index : index[k] \notin DOMAIN t.val
    THEN [ok |-> FALSE, val |-> <<>>]
    ELSE [ok |-> TRUE,
          val |-> [v \in DOMAIN t.val |->
                     IF \E k \in DOMAIN index : index[k] = v
                     THEN value ELSE t.val[v]]]

\* torch.stack(rows).permute(1, 0): rows is (num_parcels, n); the result is
\* (n, num_parcels)
StackNoPermute(rows, n) == rows

StackPermute(rows, n) ==
    [v \in 0..(n - 1) |-> [p \in DOMAIN rows |-> rows[p][v]]]

\* self.parcel_mask = torch.stack([zeros(n).scatter_(0, parcel, 1) ...]).permute(1, 0)
BuildParcelMask(ps, n) ==
    LET rows == [p \in DOMAIN ps |-> Scatter([ok |-> TRUE, val |-> Zeros(n)], ps[p], 1)]
    IN  IF \E p \in DOMAIN ps : ~rows[p].ok
        THEN [ok |-> FALSE, val |-> <<>>]
        ELSE [ok |-> TRUE,
              val |-> StackPermute([p \in DOMAIN ps |-> rows[p].val], n)]

\* ------------------------------------------- brain_encoder.forward
\* nn.Linear(hidden_dim, num_hemi_voxels): out[v] = sum_h w[v][h] * x[h] + b[v]
Linear(e, x) ==
    [v \in DOMAIN e.w |->
        SumSeq([h \in 1..HiddenDim |-> e.w[v][h] * x[h]]) + e.b[v]]

\* the shared projection applied to every parcel token: (batch, P, hidden) ->
\* (batch, P, num_hemi_voxels)
EmbedTokens(e, toks) ==
    [b \in DOMAIN toks |-> [p \in DOMAIN toks[b] |-> Linear(e, toks[b][p])]]

\* torch.movedim(pred, 1, -1): (batch, P, V) -> (batch, V, P)
MoveDim(t) ==
    [b \in DOMAIN t |->
        [v \in Voxels |-> [p \in DOMAIN t[b] |-> t[b][p][v]]]]

\* pred * self.parcel_mask, broadcast over the batch
NoMask(t, m) == t

TimesMask(t, m) ==
    [b \in DOMAIN t |->
        [v \in DOMAIN t[b] |-> [p \in DOMAIN t[b][v] |-> t[b][v][p] * m[v][p]]]]

\* torch.sum(pred, dim=-1)
SumLastDim(t) ==
    [b \in DOMAIN t |-> [v \in DOMAIN t[b] |-> SumSeq(t[b][v])]]

ReadoutHead(e, m, toks) == SumLastDim(TimesMask(MoveDim(EmbedTokens(e, toks)), m))

\* two tokens of the hidden dimension, and two settings of the learned readout
TokenSet == {[h \in 1..HiddenDim |-> 1], [h \in 1..HiddenDim |-> 0 - h]}

EmbedSet ==
    {[w |-> [v \in Voxels |-> [h \in 1..HiddenDim |-> v + h]],
      b |-> [v \in Voxels |-> v + 1]],
     [w |-> [v \in Voxels |-> [h \in 1..HiddenDim |-> IF h = 1 THEN 2 ELSE 0 - v]],
      b |-> [v \in Voxels |-> 0 - 3]]}

\* ------------------------------------------------ the model's life
ModelStart ==
    /\ parcels \in ParcelLists(IndexValues)
    /\ valid = PrefixMask(parcels)
    /\ labels = [v \in Voxels |-> 0]
    /\ embed \in EmbedSet
    /\ built = "none"
    /\ parcel_mask = <<>>
    /\ output_tokens = <<>>
    /\ pred = <<>>
    /\ forwards = 0

\* brain_encoder(args, dataset): the constructor either returns a model or raises
Build ==
    /\ built = "none"
    /\ LET m == BuildParcelMask(parcels, NumVoxels)
       IN  /\ built' = IF m.ok THEN "ok" ELSE "failed"
           /\ parcel_mask' = m.val
    /\ UNCHANGED <<embed, output_tokens, pred, forwards>>
    /\ UNCHANGED <<dataVars, trainVars, unwrapVars, evalVars, syncVars>>

\* model(imgs): one forward pass of a constructed model, on the tokens the
\* transformer returned for the batch
Forward ==
    /\ built = "ok"
    /\ forwards = 0
    /\ \E n \in 1..MaxBatchSize :
         \E toks \in [1..n -> [1..Len(parcels) -> TokenSet]] :
            /\ output_tokens' = toks
            /\ pred' = ReadoutHead(embed, parcel_mask, toks)
    /\ forwards' = forwards + 1
    /\ UNCHANGED <<built, parcel_mask, embed>>
    /\ UNCHANGED <<dataVars, trainVars, unwrapVars, evalVars, syncVars>>

ModelNext == Build \/ Forward

\* a model that is not part of the run: one parcel, never constructed
DataIdle ==
    /\ parcels = <<<<0>>>>
    /\ valid = PrefixMask(<<<<0>>>>)
    /\ labels = [v \in Voxels |-> 0]

ModelIdle ==
    /\ embed = [w |-> <<>>, b |-> <<>>]
    /\ built = "none"
    /\ parcel_mask = <<>>
    /\ output_tokens = <<>>
    /\ pred = <<>>
    /\ forwards = 0

\* ------------------------------------------------ train_one_epoch
\* loss.item(): a finite number, nan, inf or -inf
LossValues ==
    {[k |-> "fin", v |-> x] : x \in 1..2}
        \cup {[k |-> c, v |-> 0] : c \in {"nan", "inf", "ninf"}}

\* math.isfinite(loss_value)
FiniteUnlessNaN(l) == l.k # "nan"

IsFinite(l) == l.k = "fin"

\* if max_norm > 0
ClipWhenNonNegative(m) == m >= 0

ClipEnabled(m) == m > 0

\* if batch_idx % print_freq == print_freq - 1
LogDueAtWindowStart(i) == i % print_freq = 0

LogDue(i) == i % print_freq = print_freq - 1

MaxNormValues == {-1, 0, 1}

\* the batch correlation torch.corrcoef(...)[0, 1].item()
CorrValues == {0, 1}

\* optimizer.param_groups[0]["lr"]
LearningRate == 1

\* SmoothedValue.update(value): count += 1, total += value
MeterUpdate(m, value) == [count |-> m.count + 1, total |-> m.total + value]

\* SmoothedValue.global_avg: total / count, kept as a fraction
GlobalAvg(m) == [num |-> m.total, den |-> m.count]

NewMeter == [count |-> 0, total |-> 0]

NoCalls ==
    [zero_grad |-> 0, backward |-> 0, clip |-> 0, step |-> 0, update |-> 0,
     log |-> 0, log_failed |-> 0]

Did(phase) == phases' = Append(phases, phase)

\* history of the epoch: nothing has been observed before the first step
NoSteps ==
    [loss |-> 0, corr |-> 0,
     mark |-> [loss |-> 0, corr |-> 0], before |-> [loss |-> 0, corr |-> 0]]

\* history of the epoch after the step with index i, of loss l and correlation
\* c: the sums over all steps so far; "mark" is their value at the end of
\* the last step whose number i + 1 is a multiple of print_freq, "before" is
\* the mark preceding that one
Observe(h, i, l, c) ==
    LET now == [loss |-> h.loss + l, corr |-> h.corr + c]
    IN  IF (i + 1) % print_freq = 0
        THEN [loss |-> now.loss, corr |-> now.corr,
              mark |-> now, before |-> h.mark]
        ELSE [loss |-> now.loss, corr |-> now.corr,
              mark |-> h.mark, before |-> h.before]

\* the state at line 40, before the first batch is fetched
TrainStart ==
    /\ pc = "loop"
    /\ batch_idx = -1
    /\ max_norm \in MaxNormValues
    /\ loss = [k |-> "fin", v |-> 0]
    /\ phases = <<>>
    /\ calls = NoCalls
    /\ meters = [loss |-> NewMeter, loss_labels |-> NewMeter, lr |-> NewMeter]
    /\ running_loss = 0
    /\ running_corr = 0
    /\ printed = <<>>
    /\ wandb_log = <<>>
    /\ result = <<>>
    /\ seen = NoSteps

TrainIdle ==
    /\ pc = "idle"
    /\ batch_idx = -1
    /\ max_norm = 0
    /\ loss = [k |-> "fin", v |-> 0]
    /\ phases = <<>>
    /\ calls = NoCalls
    /\ meters = [loss |-> NewMeter, loss_labels |-> NewMeter, lr |-> NewMeter]
    /\ running_loss = 0
    /\ running_corr = 0
    /\ printed = <<>>
    /\ wandb_log = <<>>
    /\ result = <<>>
    /\ seen = NoSteps

\* line 40: the data loader yields the next batch
NextBatch ==
    /\ pc = "loop"
    /\ batch_idx + 1 < MaxBatches
    /\ batch_idx' = batch_idx + 1
    /\ phases' = <<>>
    /\ pc' = "forward"
    /\ UNCHANGED <<max_norm, loss, calls, meters, running_loss, running_corr,
                   printed, wandb_log, result>>
    /\ UNCHANGED <<dataVars, modelVars, unwrapVars, evalVars, syncVars, seen>>

\* line 40: the data loader (of at least one batch) is exhausted
Exhausted ==
    /\ pc = "loop"
    /\ batch_idx >= 0
    /\ pc' = "sync"
    /\ UNCHANGED <<batch_idx, max_norm, loss, phases, calls, meters,
                   running_loss, running_corr, printed, wandb_log, result>>
    /\ UNCHANGED <<dataVars, modelVars, unwrapVars, evalVars, syncVars, seen>>

\* lines 43-46: outputs = model(imgs)["pred"]
ForwardStep ==
    /\ pc = "forward"
    /\ Did("Forward")
    /\ pc' = "loss"
    /\ UNCHANGED <<batch_idx, max_norm, loss, calls, meters, running_loss,
                   running_corr, printed, wandb_log, result>>
    /\ UNCHANGED <<dataVars, modelVars, unwrapVars, evalVars, syncVars, seen>>

\* lines 47-49: loss = criterion(outputs, targets) / num_valid_voxels
LossCompute ==
    /\ pc = "loss"
    /\ loss' \in LossValues
    /\ Did("LossCompute")
    /\ pc' = "finite"
    /\ UNCHANGED <<batch_idx, max_norm, calls, meters, running_loss,
                   running_corr, printed, wandb_log, result>>
    /\ UNCHANGED <<dataVars, modelVars, unwrapVars, evalVars, syncVars, seen>>

\* lines 51-54: a non-finite loss is printed and the process exits
FiniteCheck ==
    /\ pc = "finite"
    /\ Did("FiniteCheck")
    /\ IF IsFinite(loss)
       THEN pc' = "backward" /\ printed' = printed
       ELSE pc' = "exited" /\ printed' = loss
    /\ UNCHANGED <<batch_idx, max_norm, loss, calls, meters, running_loss,
                   running_corr, wandb_log, result>>
    /\ UNCHANGED <<dataVars, modelVars, unwrapVars, evalVars, syncVars, seen>>

\* lines 56-58: optimizer.zero_grad(); loss.backward()
Backward ==
    /\ pc = "backward"
    /\ calls' = [calls EXCEPT !.zero_grad = @ + 1, !.backward = @ + 1]
    /\ Did("Backward")
    /\ pc' = IF ClipEnabled(max_norm) THEN "clip" ELSE "step"
    /\ UNCHANGED <<batch_idx, max_norm, loss, meters, running_loss,
                   running_corr, printed, wandb_log, result>>
    /\ UNCHANGED <<dataVars, modelVars, unwrapVars, evalVars, syncVars, seen>>

\* line 59: torch.nn.utils.clip_grad_norm_(model.parameters(), max_norm)
GradClip ==
    /\ pc = "clip"
    /\ calls' = [calls EXCEPT !.clip = @ + 1]
    /\ Did("GradClip")
    /\ pc' = "step"
    /\ UNCHANGED <<batch_idx, max_norm, loss, meters, running_loss,
                   running_corr, printed, wandb_log, result>>
    /\ UNCHANGED <<dataVars, modelVars, unwrapVars, evalVars, syncVars, seen>>

\* line 60: optimizer.step()
OptimizerStep ==
    /\ pc = "step"
    /\ calls' = [calls EXCEPT !.step = @ + 1]
    /\ Did("OptimizerStep")
    /\ pc' = "metric"
    /\ UNCHANGED <<batch_idx, max_norm, loss, meters, running_loss,
                   running_corr, printed, wandb_log, result>>
    /\ UNCHANGED <<dataVars, modelVars, unwrapVars, evalVars, syncVars, seen>>

\* lines 62-66: the three metric_logger.update calls
MetricUpdate ==
    /\ pc = "metric"
    /\ meters' = [loss |-> MeterUpdate(meters.loss, loss.v),
                  loss_labels |-> MeterUpdate(meters.loss_labels, loss.v),
                  lr |-> MeterUpdate(meters.lr, LearningRate)]
    /\ calls' = [calls EXCEPT !.update = @ + 1]
    /\ Did("MetricUpdate")
    /\ pc' = "corr"
    /\ UNCHANGED <<batch_idx, max_norm, loss, running_loss, running_corr,
                   printed, wandb_log, result>>
    /\ UNCHANGED <<dataVars, modelVars, unwrapVars, evalVars, syncVars, seen>>

\* lines 68-77: the batch correlation and the two running accumulators
CorrTrack ==
    /\ pc = "corr"
    /\ \E train_corr \in CorrValues :
          /\ running_corr' = running_corr + train_corr
          /\ seen' = Observe(seen, batch_idx, loss.v, train_corr)
    /\ running_loss' = running_loss + loss.v
    /\ Did("CorrTrack")
    /\ pc' = IF LogDue(batch_idx) THEN "log" ELSE "loop"
    /\ UNCHANGED <<batch_idx, max_norm, loss, calls, meters, printed,
                   wandb_log, result>>
    /\ UNCHANGED <<dataVars, modelVars, unwrapVars, evalVars, syncVars>>

\* lines 78-87: wandb.log returns; the accumulators are reset
ExternalLog ==
    /\ pc = "log"
    /\ wandb_log' = [loss |-> [num |-> running_loss, den |-> print_freq],
                     corr |-> [num |-> running_corr, den |-> print_freq],
                     batch |-> batch_idx]
    /\ calls' = [calls EXCEPT !.log = @ + 1]
    /\ running_loss' = 0
    /\ running_corr' = 0
    /\ Did("ExternalLog")
    /\ pc' = "loop"
    /\ UNCHANGED <<batch_idx, max_norm, loss, meters, printed, result>>
    /\ UNCHANGED <<dataVars, modelVars, unwrapVars, evalVars, syncVars, seen>>

\* line 78: wandb.log raises; nothing in train_one_epoch catches it
ExternalLogRaises ==
    /\ pc = "log"
    /\ calls' = [calls EXCEPT !.log = @ + 1, !.log_failed = @ + 1]
    /\ Did("ExternalLog")
    /\ pc' = "raised"
    /\ UNCHANGED <<batch_idx, max_norm, loss, meters, running_loss,
                   running_corr, printed, wandb_log, result>>
    /\ UNCHANGED <<dataVars, modelVars, unwrapVars, evalVars, syncVars, seen>>

\* lines 90-92: synchronize, print and return the global averages
Return ==
    /\ pc = "sync"
    /\ result' = [k \in DOMAIN meters |-> GlobalAvg(meters[k])]
    /\ pc' = "returned"
    /\ UNCHANGED <<batch_idx, max_norm, loss, phases, calls, meters,
                   running_loss, running_corr, printed, wandb_log>>
    /\ UNCHANGED <<dataVars, modelVars, unwrapVars, evalVars, syncVars, seen>>

TrainNext ==
    \/ NextBatch
    \/ Exhausted
    \/ ForwardStep
    \/ LossCompute
    \/ FiniteCheck
    \/ Backward
    \/ GradClip
    \/ OptimizerStep
    \/ MetricUpdate
    \/ CorrTrack
    \/ ExternalLog
    \/ ExternalLogRaises
    \/ Return

\* ------------------------------------- synchronize_between_processes
\* Every worker process runs train_one_epoch over its own shard of the data
\* and reaches line 90 with its own metric_logger.meters; the reduction sums
\* the counts and the totals of the workers, in an order and a grouping the
\* communication library chooses, and every worker then returns the global
\* averages of the merged meters.
\* lines 62-66 on a worker: one step of loss value x updates the three meters
StepMeters(ms, x) ==
    [loss |-> MeterUpdate(ms.loss, x),
     loss_labels |-> MeterUpdate(ms.loss_labels, x),
     lr |-> MeterUpdate(ms.lr, LearningRate)]

NewMeters == [loss |-> NewMeter, loss_labels |-> NewMeter, lr |-> NewMeter]

\* the meters a worker can hold after exactly n finished steps
RECURSIVE MetersAfter(_)
MetersAfter(n) ==
    IF n = 0
    THEN {NewMeters}
    ELSE {StepMeters(ms, l.v) : ms \in MetersAfter(n - 1),
                               l \in {x \in LossValues : IsFinite(x)}}

\* a worker reaches line 90 after at least one step (see Exhausted)
WorkerMeters == UNION {MetersAfter(n) : n \in 1..MaxShardBatches}

\* the reduction of two meters: counts and totals are summed
MergeOverwriteCount(a, b) == [count |-> b.count, total |-> a.total + b.total]

MergeMeter(a, b) == [count |-> a.count + b.count, total |-> a.total + b.total]

MergeMeters(x, y) == [k \in DOMAIN x |-> MergeMeter(x[k], y[k])]

\* the sequence q without its j-th element
Without(q, j) == [n \in 1..(Len(q) - 1) |-> IF n < j THEN q[n] ELSE q[n + 1]]

SyncIdle ==
    /\ shards = <<>>
    /\ pool = <<>>
    /\ spc = "idle"
    /\ sync_result = <<>>

\* line 90 is reached by every worker: the reduction starts from their meters
SyncStart ==
    /\ shards \in UNION {[1..n -> WorkerMeters] : n \in 1..MaxWorkers}
    /\ pool = shards
    /\ spc = "reduce"
    /\ sync_result = <<>>

\* line 90: one step of the reduction merges the j-th partial sum into the i-th
MergePair ==
    /\ spc = "reduce"
    /\ \E i \in 1..Len(pool), j \in 1..Len(pool) :
          /\ i # j
          /\ pool' = Without([pool EXCEPT ![i] = MergeMeters(pool[i], pool[j])], j)
    /\ UNCHANGED <<shards, spc, sync_result>>
    /\ UNCHANGED <<dataVars, modelVars, trainVars, unwrapVars, evalVars>>

\* lines 91-92: the reduction is complete; the global averages are returned
SyncReturn ==
    /\ spc = "reduce"
    /\ Len(pool) = 1
    /\ sync_result' = [k \in DOMAIN pool[1] |-> GlobalAvg(pool[1][k])]
    /\ spc' = "returned"
    /\ UNCHANGED <<shards, pool>>
    /\ UNCHANGED <<dataVars, modelVars, trainVars, unwrapVars, evalVars>>

SyncNext ==
    \/ MergePair
    \/ SyncReturn

\* ------------------------------------------------ unwrap_fmri
\* betas[:, m]: the slots a boolean row selects, in increasing order
RECURSIVE LeadingSlots(_, _)
LeadingSlots(m, k) ==
    IF k > CountTrue(m) THEN <<>> ELSE <<k>> \o LeadingSlots(m, k + 1)

RECURSIVE TrueSlots(_, _)
TrueSlots(m, k) ==
    IF k > Len(m) THEN <<>>
    ELSE (IF m[k] THEN <<k>> ELSE <<>>) \o TrueSlots(m, k + 1)

\* line 96: recon = torch.zeros(batch_size, num_voxels); no voxel written yet
NewRecon(n) ==
    [recon |-> [b \in 1..n |-> [v \in Voxels |-> 0]],
     writes |-> [v \in Voxels |-> 0],
     src |-> [v \in Voxels |-> <<>>]]

\* line 100: recon[:, idxs] = betas[:, m] for parcel p.  Every occurrence of
\* a voxel in idxs is one write; when idxs names a voxel twice, torch leaves
\* open which of the values stays, so every choice is an outcome.
IndexAssignAdd(st, data, p, idxs, slots) ==
    {[recon |-> [b \in DOMAIN st.recon |->
                    [v \in Voxels |->
                        st.recon[b][v]
                          + SumSeq([k \in DOMAIN idxs |->
                                      IF idxs[k] = v THEN data[b][p][slots[k]] ELSE 0])]],
      writes |-> [v \in Voxels |->
                    st.writes[v] + Cardinality({k \in DOMAIN idxs : idxs[k] = v})],
      src |-> [v \in Voxels |->
                 IF v \in Range(idxs)
                 THEN <<p, slots[CHOOSE k \in DOMAIN idxs : idxs[k] = v]>>
                 ELSE st.src[v]]]}

IndexAssign(st, data, p, idxs, slots) ==
    LET winners == {w \in [Range(idxs) -> DOMAIN idxs] :
                       \A v \in Range(idxs) : idxs[w[v]] = v}
    IN  {[recon |-> [b \in DOMAIN st.recon |->
                        [v \in Voxels |->
                            IF v \in Range(idxs)
                            THEN data[b][p][slots[w[v]]]
                            ELSE st.recon[b][v]]],
          writes |-> [v \in Voxels |->
                        st.writes[v] + Cardinality({k \in DOMAIN idxs : idxs[k] = v})],
          src |-> [v \in Voxels |->
                     IF v \in Range(idxs) THEN <<p, slots[w[v]]>> ELSE st.src[v]]] :
         w \in winners}

\* lines 97-100: the loop over zip(dataset.parcels, fmri_data.permute(1, 0, 2),
\* dataset.mask), from parcel p on, started in any of the states sts
RECURSIVE ScatterLoop(_, _, _, _, _)
ScatterLoop(sts, data, ps, vm, p) ==
    IF p > Len(ps) \/ p > Len(vm) THEN sts
    ELSE ScatterLoop(
            UNION {IndexAssign(st, data, p, ps[p], TrueSlots(vm[p], 1)) : st \in sts},
            data, ps, vm, p + 1)

\* line 101: recon[:, dataset.labels[:, 0] == metaparcel_idx], one row
RECURSIVE SelectColumns(_, _, _, _)
SelectColumns(row, lab, meta, v) ==
    IF v >= NumVoxels THEN <<>>
    ELSE (IF lab[v] = meta THEN <<row[v]>> ELSE <<>>)
            \o SelectColumns(row, lab, meta, v + 1)

\* unwrap_fmri(batch_size, fmri_data, dataset, metaparcel_idx): what the call
\* can leave behind and return
UnwrapFmri(n, data, ps, vm, lab, meta) ==
    {[recon |-> st.recon, writes |-> st.writes, src |-> st.src,
      out |-> [b \in 1..n |-> SelectColumns(st.recon[b], lab, meta, 0)]] :
        st \in ScatterLoop({NewRecon(n)}, data, ps, vm, 1)}

\* the value of a padding slot
PadValue == 0 - 9

\* the dense voxel vectors of n samples: every entry differs from every
\* other, from 0 and from the padding value
DenseSet(n) == {[b \in 1..n |-> [v \in Voxels |-> 10 * b + v + 1]]}

\* args.metaparcel_idx
MetaparcelValues == {1}

\* parcel-slot packing: the j-th valid slot of parcel p holds the value of
\* the j-th voxel index of parcel p, every other slot holds the padding value
Pack(d, ps, vm) ==
    [b \in DOMAIN d |->
        [p \in DOMAIN ps |->
            [k \in 1..MaxLen(ps) |->
                IF vm[p][k]
                THEN d[b][ps[p][CountTrue([j \in 1..k |-> vm[p][j]])]]
                ELSE PadValue]]]

UnwrapIdle ==
    /\ fmri_data = <<>>
    /\ metaparcel_idx = 0
    /\ dense = <<>>
    /\ unwrapped = <<>>

\* a dataset whose parcels passed model construction, before any call: the
\* indices are in range and no parcel lists a voxel twice, while two parcels
\* may share a voxel
UnwrapStart ==
    /\ parcels \in {ps \in ParcelLists(Voxels) : UniqueWithin(ps)}
    /\ valid \in ValidMasks(parcels)
    /\ labels \in [Voxels -> LabelValues]
    /\ UnwrapIdle

\* one call of unwrap_fmri on a packed batch
Unwrap ==
    /\ unwrapped = <<>>
    /\ \E meta \in MetaparcelValues : \E d \in DenseSet(MaxLoaderBatch) :
          /\ metaparcel_idx' = meta
          /\ dense' = d
          /\ fmri_data' = Pack(d, parcels, valid)
          /\ unwrapped' \in
                UnwrapFmri(Len(d), Pack(d, parcels, valid), parcels, valid, labels, meta)
    /\ UNCHANGED <<dataVars, modelVars, trainVars, evalVars, syncVars>>

UnwrapNext == Unwrap

\* ------------------------------------------------ evaluate
\* the dense target of sample i of the evaluation set, and the dense
\* prediction the model makes for it
TargetDense(i) == [v \in Voxels |-> 10 * i + v + 1]

PredDense(i) == [v \in Voxels |-> 0 - (10 * i + v + 20)]

\* the samples of the batch that follows the first `before` batches
BatchSamples(sizes, before) ==
    LET first == SumSeq(SubSeq(sizes, 1, before))
    IN  [b \in 1..sizes[before + 1] |-> first + b]

\* loss.item() of an evaluation batch
EvalLossValues == {1, 2}

\* torch.vstack(list of (batch, n) tensors): the rows of all, in list order
RECURSIVE VStack(_)
VStack(ts) == IF ts = <<>> THEN <<>> ELSE Head(ts) \o VStack(Tail(ts))

\* line 149: return torch.vstack(ys), torch.vstack(preds)
EvaluateResultPredsFirst(targets, predictions) ==
    <<VStack(predictions), VStack(targets)>>

EvaluateResultWithLoss(targets, predictions) ==
    <<VStack(targets), VStack(predictions), 0>>

EvaluateResult(targets, predictions) == <<VStack(targets), VStack(predictions)>>

\* parcels as the datasets of an evaluation run have them: the voxels in
\* increasing order over the parcels, hence no voxel in two parcels
RECURSIVE Flatten(_)
Flatten(ps) == IF ps = <<>> THEN <<>> ELSE Head(ps) \o Flatten(Tail(ps))

EvalParcelLists ==
    {ps \in ParcelLists(Voxels) :
        \A j, k \in DOMAIN Flatten(ps) : j < k => Flatten(ps)[j] < Flatten(ps)[k]}

\* a DataLoader over n samples with batch size b: full batches, then the rest
Batches(n, b) ==
    [j \in 1..((n + b - 1) \div b) |-> IF j * b <= n THEN b ELSE n - (j - 1) * b]

Loaders ==
    {Batches(n, b) : n \in 0..(MaxLoaderBatch * MaxEvalBatches), b \in 1..MaxLoaderBatch}
        \cap SeqsUpTo(1..MaxLoaderBatch, MaxEvalBatches)

EvalIdle ==
    /\ loader = <<>>
    /\ epc = "idle"
    /\ cursor = 0
    /\ ys = <<>>
    /\ preds = <<>>
    /\ eval_meter = NewMeter
    /\ eval_printed = <<>>
    /\ eval_result = <<>>

\* the state at line 119, before the first batch is fetched
EvalStart ==
    /\ parcels \in EvalParcelLists
    /\ valid = PrefixMask(parcels)
    /\ labels \in [Voxels -> LabelValues]
    /\ metaparcel_idx \in MetaparcelValues
    /\ fmri_data = <<>>
    /\ dense = <<>>
    /\ unwrapped = <<>>
    /\ loader \in Loaders
    /\ epc = "loop"
    /\ cursor = 0
    /\ ys = <<>>
    /\ preds = <<>>
    /\ eval_meter = NewMeter
    /\ eval_printed = <<>>
    /\ eval_result = <<>>

\* lines 119-144: one evaluation batch
EvalBatch ==
    /\ epc = "loop"
    /\ cursor < Len(loader)
    /\ LET ids == BatchSamples(loader, cursor)
           targets == Pack([b \in DOMAIN ids |-> TargetDense(ids[b])], parcels, valid)
           outputs == Pack([b \in DOMAIN ids |-> PredDense(ids[b])], parcels, valid)
       IN  /\ \E r \in UnwrapFmri(Len(outputs), outputs, parcels, valid, labels,
                                  metaparcel_idx) :
                 preds' = Append(preds, r.out)
           /\ \E r \in UnwrapFmri(Len(targets), targets, parcels, valid, labels,
                                  metaparcel_idx) :
                 ys' = Append(ys, r.out)
    /\ \E loss_value \in EvalLossValues :
          eval_meter' = MeterUpdate(eval_meter, loss_value)
    /\ cursor' = cursor + 1
    /\ UNCHANGED <<loader, epc, eval_printed, eval_result>>
    /\ UNCHANGED <<dataVars, modelVars, trainVars, unwrapVars, syncVars>>

\* lines 146-149 after at least one batch: print the averaged stats, return
EvalReturn ==
    /\ epc = "loop"
    /\ cursor = Len(loader)
    /\ ys # <<>>
    /\ eval_printed' = [loss_labels |-> GlobalAvg(eval_meter)]
    /\ eval_result' = EvaluateResult(ys, preds)
    /\ epc' = "returned"
    /\ UNCHANGED <<loader, cursor, ys, preds, eval_meter>>
    /\ UNCHANGED <<dataVars, modelVars, trainVars, unwrapVars, syncVars>>

\* line 149 after no batch at all: torch.vstack of an empty list raises
EvalEmptyRaises ==
    /\ epc = "loop"
    /\ cursor = Len(loader)
    /\ ys = <<>>
    /\ epc' = "raised"
    /\ UNCHANGED <<loader, cursor, ys, preds, eval_meter, eval_printed, eval_result>>
    /\ UNCHANGED <<dataVars, modelVars, trainVars, unwrapVars, syncVars>>

EvalNext == EvalBatch \/ EvalReturn \/ EvalEmptyRaises

\* ------------------------------------------------ specifications
ModelInit == ModelStart /\ TrainIdle /\ UnwrapIdle /\ EvalIdle /\ SyncIdle

SpecModel == ModelInit /\ [][ModelNext]_vars

TrainInit ==
    TrainStart /\ DataIdle /\ ModelIdle /\ UnwrapIdle /\ EvalIdle /\ SyncIdle

SpecTrain == TrainInit /\ [][TrainNext]_vars

UnwrapInit == UnwrapStart /\ ModelIdle /\ TrainIdle /\ EvalIdle /\ SyncIdle

SpecUnwrap == UnwrapInit /\ [][UnwrapNext]_vars

EvalInit == EvalStart /\ ModelIdle /\ TrainIdle /\ SyncIdle

SpecEval == EvalInit /\ [][EvalNext]_vars

SyncInit ==
    SyncStart /\ DataIdle /\ ModelIdle /\ TrainIdle /\ UnwrapIdle /\ EvalIdle

SpecSync == SyncInit /\ [][SyncNext]_vars

\* ------------------------------------------------ claims on the model
\* sum of f[p] over the parcels p of the set P
RECURSIVE SumOver(_, _)
SumOver(P, f) ==
    IF P = {} THEN 0
    ELSE LET p == CHOOSE q \in P : TRUE IN f[p] + SumOver(P \ {p}, f)

\* the shared projection of token (b, p), read at voxel v
Projection(b, p, v) == Linear(embed, output_tokens[b][p])[v]

ColumnSum(p) == SumSeq([i \in 1..NumVoxels |-> parcel_mask[i - 1][p]])

\* C3: after a forward pass, pred[b, v] is the sum, over the parcels that
\* contain v, of the shared projection of token[b, p] read at v; with
\* pairwise disjoint parcels that is the projection of the one owning parcel,
\* and a voxel of no parcel reads 0.
C3_ReadoutSumsOwners ==
    forwards > 0 =>
        \A b \in DOMAIN output_tokens : \A v \in Voxels :
            /\ pred[b][v] =
                 SumOver(Owners(parcels, v),
                         [p \in DOMAIN parcels |-> Projection(b, p, v)])
            /\ PairwiseDisjoint(parcels) =>
                 \A p \in Owners(parcels, v) : pred[b][v] = Projection(b, p, v)
            /\ Owners(parcels, v) = {} => pred[b][v] = 0

C3_Witness ==
    /\ forwards > 0
    /\ Len(output_tokens) = MaxBatchSize
    /\ \E v \in Voxels : Cardinality(Owners(parcels, v)) = 2 /\ pred[1][v] # 0
    /\ \E v \in Voxels : Owners(parcels, v) = {}

C9_OutOfRangeFailsBuild ==
    ~InRange(parcels) => built # "ok" /\ parcel_mask = <<>> /\ forwards = 0

C9_Witness ==
    /\ built = "failed"
    /\ \E p \in DOMAIN parcels : \E k \in DOMAIN parcels[p] : parcels[p][k] < 0

\* ------------------------------------------------ claims on train_one_epoch
IsPrefix(a, b) == Len(a) <= Len(b) /\ a = SubSeq(b, 1, Len(a))

NamedPhases ==
    {"Forward", "LossCompute", "FiniteCheck", "Backward", "GradClip",
     "OptimizerStep", "MetricUpdate", "ExternalLog"}

IsNamed(ph) == ph \in NamedPhases

\* the phases a batch with a finite loss has to run through
ExpectedPhases(i, m) ==
    <<"Forward", "LossCompute", "FiniteCheck", "Backward">>
        \o (IF m > 0 THEN <<"GradClip">> ELSE <<>>)
        \o <<"OptimizerStep", "MetricUpdate">>
        \o (IF i % 10 = 9 THEN <<"ExternalLog">> ELSE <<>>)

LossKnown == "LossCompute" \in Range(phases)

\* C1: a batch whose loss is not finite stops the run at the finite check,
\* after the value is reported: none of zero_grad, backward, clipping,
\* optimizer.step, metric update or wandb.log runs for that batch or later,
\* and the optimizer has stepped once per batch that preceded it.
C1_NonFiniteLossTerminates ==
    /\ (LossKnown /\ loss.k # "fin") =>
          /\ pc \in {"finite", "exited"}
          /\ IsPrefix(phases, <<"Forward", "LossCompute", "FiniteCheck">>)
          /\ calls.step = batch_idx
    /\ (printed # <<>> \/ pc = "exited") =>
          /\ pc = "exited"
          /\ printed = loss
          /\ loss.k \in {"nan", "inf", "ninf"}
          /\ calls.zero_grad = batch_idx
          /\ calls.backward = batch_idx
          /\ calls.clip = IF max_norm > 0 THEN batch_idx ELSE 0
          /\ calls.step = batch_idx
          /\ calls.update = batch_idx
          /\ meters.loss.count = batch_idx
          /\ calls.log = batch_idx \div 10

C1_Witness ==
    /\ pc = "exited"
    /\ loss.k = "nan"
    /\ batch_idx = 10
    /\ calls.step = 10
    /\ calls.log = 1

C2_Order ==
    /\ IsPrefix(SelectSeq(phases, IsNamed), ExpectedPhases(batch_idx, max_norm))
    /\ (pc \in {"loop", "sync", "returned"} /\ batch_idx >= 0) =>
          SelectSeq(phases, IsNamed) = ExpectedPhases(batch_idx, max_norm)

C2_BatchBoundary ==
    batch_idx' # batch_idx =>
        /\ batch_idx' = batch_idx + 1
        /\ phases' = <<>>
        /\ batch_idx >= 0 =>
              /\ loss.k = "fin"
              /\ SelectSeq(phases, IsNamed) = ExpectedPhases(batch_idx, max_norm)

\* C2: the phases of a step with a finite loss run in the order Forward,
\* LossCompute, FiniteCheck, Backward, GradClip, OptimizerStep, MetricUpdate,
\* ExternalLog, each at most once, GradClip exactly when max_norm > 0 and
\* ExternalLog exactly on the logging steps; the next batch starts only after
\* the last phase of the current one.
C2_PhaseOrder == []C2_Order /\ [][C2_BatchBoundary]_vars

C2_Witness ==
    /\ pc = "loop"
    /\ batch_idx = 9
    /\ max_norm > 0
    /\ Len(SelectSeq(phases, IsNamed)) = 8

\* C10: a wandb.log call that fails does not abort train_one_epoch: the loop
\* goes on with the remaining batches and the function returns.
C10_LogFailureDoesNotAbort ==
    calls.log_failed > 0 =>
        pc \in {"loop", "forward", "loss", "finite", "backward", "clip", "step",
                "metric", "corr", "log", "sync", "returned"}

\* ------------------------------------------------ claims on unwrap_fmri
Covered(v) == \E p \in DOMAIN parcels : \E k \in DOMAIN parcels[p] : parcels[p][k] = v

Selected == {v \in Voxels : labels[v] = metaparcel_idx}

Occurrences(v) ==
    SumSeq([p \in DOMAIN parcels |->
              Cardinality({k \in DOMAIN parcels[p] : parcels[p][k] = v})])

HasPadding == \E p \in DOMAIN valid : \E k \in DOMAIN valid[p] : ~valid[p][k]

\* C5: unwrapping a packed batch returns, for every voxel carrying the
\* requested label and in voxel order, the packed value when some parcel
\* lists the voxel and 0 otherwise; the result is (batch, number of voxels
\* with that label).
C5_UnwrapLeftInverse ==
    unwrapped # <<>> =>
        /\ DOMAIN unwrapped.out = DOMAIN dense
        /\ \A b \in DOMAIN dense :
              /\ Len(unwrapped.out[b]) = Cardinality(Selected)
              /\ \A v \in Selected :
                    unwrapped.out[b][Cardinality({u \in Selected : u <= v})]
                        = IF Covered(v) THEN dense[b][v] ELSE 0

C5_Witness ==
    /\ unwrapped # <<>>
    /\ Len(unwrapped.out) = MaxLoaderBatch
    /\ \E v \in Selected : Covered(v)
    /\ \E v \in Selected : ~Covered(v)
    /\ \E v \in Voxels : v \notin Selected /\ Covered(v)
    /\ \E p \in DOMAIN valid : ~valid[p][1]

\* C6 as stated: every voxel of some parcel is written exactly once, a voxel
\* of no parcel is never written, and no padding value reaches the output.
C6_ExactlyOneWrite ==
    unwrapped # <<>> =>
        /\ \A v \in Voxels :
              unwrapped.writes[v] = IF Covered(v) THEN 1 ELSE 0
        /\ \A b \in DOMAIN unwrapped.out : PadValue \notin Range(unwrapped.out[b])

\* C6, amended: every write is a direct assignment from a valid slot of a
\* parcel that lists the voxel; a voxel is written once per occurrence of its
\* index in the parcel lists, hence exactly once when the parcels are pairwise
\* disjoint and list no index twice; a voxel of no parcel is never written;
\* no padding value reaches the output.
C6_DirectAssignment ==
    unwrapped # <<>> =>
        /\ \A v \in Voxels :
              /\ unwrapped.writes[v] = Occurrences(v)
              /\ (UniqueWithin(parcels) /\ PairwiseDisjoint(parcels)) =>
                    unwrapped.writes[v] = IF Covered(v) THEN 1 ELSE 0
              /\ ~Covered(v) =>
                    /\ unwrapped.src[v] = <<>>
                    /\ \A b \in DOMAIN unwrapped.recon : unwrapped.recon[b][v] = 0
              /\ Covered(v) =>
                    /\ Len(unwrapped.src[v]) = 2
                    /\ v \in Range(parcels[unwrapped.src[v][1]])
                    /\ valid[unwrapped.src[v][1]][unwrapped.src[v][2]]
                    /\ \A b \in DOMAIN unwrapped.recon :
                          unwrapped.recon[b][v] =
                              fmri_data[b][unwrapped.src[v][1]][unwrapped.src[v][2]]
        /\ \A b \in DOMAIN unwrapped.out : PadValue \notin Range(unwrapped.out[b])

C6_Witness ==
    /\ unwrapped # <<>>
    /\ Len(parcels) = 2
    /\ UniqueWithin(parcels) /\ PairwiseDisjoint(parcels)
    /\ HasPadding
    /\ \E v \in Selected : unwrapped.writes[v] = 1

\* ------------------------------------------------ claims on evaluate
\* the row unwrap_fmri has to produce for the dense vector d
IsRestriction(row, d) ==
    /\ Len(row) = Cardinality(Selected)
    /\ \A v \in Selected :
          row[Cardinality({u \in Selected : u <= v})] = IF Covered(v) THEN d[v] ELSE 0

\* C7: evaluate takes every batch of the loader once and returns (targets,
\* predictions), in that position order: row i of the first is the
\* reconstruction of the target of sample i, row i of the second that of the
\* prediction for sample i, in the order the batches came, one row per
\* evaluated sample; no backward pass and no optimizer step is made.
C7_EvaluateOrder ==
    epc = "returned" =>
        /\ cursor = Len(loader)
        /\ Len(ys) = Len(loader) /\ Len(preds) = Len(loader)
        /\ \A j \in DOMAIN loader : Len(ys[j]) = loader[j] /\ Len(preds[j]) = loader[j]
        /\ Len(eval_result) >= 2
        /\ Len(eval_result[1]) = SumSeq(loader)
        /\ Len(eval_result[2]) = SumSeq(loader)
        /\ \A i \in 1..SumSeq(loader) :
              /\ IsRestriction(eval_result[1][i], TargetDense(i))
              /\ IsRestriction(eval_result[2][i], PredDense(i))
        /\ calls = NoCalls

C7_Witness ==
    /\ epc = "returned"
    /\ Len(loader) = 2
    /\ loader[1] = 2
    /\ Len(eval_result[1]) = 2 + loader[2]
    /\ Cardinality(Selected) >= 2
    /\ \E v \in Selected : Covered(v)

\* C8 as stated: evaluate returns the averaged loss next to the two tensors.
C8_ReturnsAveragedLoss ==
    epc = "returned" =>
        /\ Len(eval_result) = 3
        /\ eval_result[3] = GlobalAvg(eval_meter)

\* C8, amended: after the loader is exhausted evaluate prints the averaged
\* loss of the evaluation set and returns only the stacked targets and the
\* stacked predictions; the averaged loss is not part of the return value.
C8_AveragedLossOnlyPrinted ==
    epc = "returned" =>
        /\ cursor = Len(loader)
        /\ Len(eval_result) = 2
        /\ eval_meter.count = Len(loader)
        /\ eval_printed = [loss_labels |-> [num |-> eval_meter.total,
                                            den |-> Len(loader)]]

C8_Witness ==
    /\ epc = "returned"
    /\ Len(loader) = 2
    /\ eval_meter.total = 3
    /\ eval_printed.loss_labels.den = 2

\* ------------------------------------------------ claims on the running averages
\* between two batches, or after the last one
AtStepBoundary == pc \in {"loop", "sync", "returned"} /\ batch_idx >= 0

\* the number of steps since the last one whose number is a multiple of
\* print_freq
SinceReport == (batch_idx + 1) % print_freq

\* C12: wandb.log is called after the step with batch index i exactly when
\* i mod print_freq = print_freq - 1; it is handed the sums of loss and
\* correlation over the print_freq steps since the previous report, divided
\* by print_freq; both accumulators are 0 right after a report, and at every
\* step boundary they hold the sums over the (i + 1) mod print_freq most
\* recent steps.
C12_PeriodicReportAndReset ==
    AtStepBoundary =>
        /\ calls.log = (batch_idx + 1) \div print_freq
        /\ running_loss = seen.loss - seen.mark.loss
        /\ running_corr = seen.corr - seen.mark.corr
        /\ SinceReport = 0 => running_loss = 0 /\ running_corr = 0
        /\ IF batch_idx + 1 < print_freq
           THEN wandb_log = <<>>
           ELSE wandb_log =
                    [loss |-> [num |-> seen.mark.loss - seen.before.loss,
                               den |-> print_freq],
                     corr |-> [num |-> seen.mark.corr - seen.before.corr,
                               den |-> print_freq],
                     batch |-> batch_idx - SinceReport]

C12_Witness ==
    /\ pc = "loop"
    /\ batch_idx = print_freq + 1
    /\ calls.log = 1
    /\ wandb_log.loss.num = 15
    /\ wandb_log.corr.num = 4
    /\ seen.loss = 18
    /\ seen.corr = 5
    /\ running_loss = 3
    /\ running_corr = 1

\* ------------------------------------------------ claims on the reduction
\* the sum of the counts, and of the totals, of metric k over all workers
ShardCounts(k) == SumSeq([n \in 1..Len(shards) |-> shards[n][k].count])

ShardTotals(k) == SumSeq([n \in 1..Len(shards) |-> shards[n][k].total])

\* C11: whatever the order and the grouping in which the workers' meters
\* are merged, the global average returned for every metric is the sum of
\* the workers' totals over the sum of the workers' counts.
C11_MergedGlobalAverage ==
    spc = "returned" =>
        \A k \in DOMAIN sync_result :
            sync_result[k] = [num |-> ShardTotals(k), den |-> ShardCounts(k)]

C11_Witness ==
    /\ spc = "returned"
    /\ Len(shards) = 3
    /\ shards[1].loss = [count |-> 1, total |-> 1]
    /\ shards[2].loss = [count |-> 2, total |-> 3]
    /\ shards[3].loss = [count |-> 2, total |-> 4]
    /\ sync_result.loss = [num |-> 8, den |-> 5]
    /\ sync_result.lr = [num |-> 5, den |-> 5]

====
